---- MODULE Spec2Model ----
(***************************************************************************)
(* Model of narest.py: the study of the distribution of NaN in time-       *)
(* indexed tables (pandas DataFrame, time as index, tickers as columns).   *)
(*                                                                         *)
(* A DataFrame is a record [index, columns, data]: index is the strictly   *)
(* increasing sequence of time labels, columns the sequence of column      *)
(* names and data maps a column name to its sequence of cells.  A Series   *)
(* is a sequence of <<label, cell>> pairs.  A float cell is NaN or a       *)
(* rational <<num, den>> in lowest terms: arithmetic is exact (real), the  *)
(* IEEE rounding of numpy is not modelled.  x == 0 and x >= 0 are          *)
(* unaffected by that rounding for the sums of k copies of 1/W computed    *)
(* here (zero exactly when k = 0, positive otherwise).                     *)
(***************************************************************************)
EXTENDS Integers, Sequences, FiniteSets, TLC

VARIABLES df, longueur_fenetre, modif_output, pc, ret, raised

vars == <<df, longueur_fenetre, modif_output, pc, ret, raised>>

\* largest number of rows of the enumerated input tables
MaxRows == 4

-----------------------------------------------------------------------------
(* floats, None *)

NaN == << >>
None == << >>

RECURSIVE Gcd(_, _)
Gcd(a, b) == IF b = 0 THEN a ELSE Gcd(b, a % b)

Rat(n, d) == LET g == Gcd(n, d) IN <<n \div g, d \div g>>

Num(k) == <<k, 1>>

\* a / b on two non-negative integer counts (numpy true division: 0/0 is nan)
TrueDiv(a, b) == IF b = 0 THEN (IF a = 0 THEN NaN ELSE <<1, 0>>) ELSE Rat(a, b)

\* x * k, k a positive integer; nan * k is nan
Mul(x, k) == IF x = NaN THEN NaN ELSE IF x[2] = 0 THEN x ELSE Rat(x[1] * k, x[2])

\* x + y on non-negative rationals
Add(x, y) == Rat(x[1] * y[2] + y[1] * x[2], x[2] * y[2])

\* elementwise x == k: False when x is nan
FloatEq(x, k) == x # NaN /\ x = Num(k)

\* elementwise x >= k: False when x is nan
FloatGe(x, k) == x # NaN /\ x[1] >= k * x[2]

isna(x) == x = NaN

-----------------------------------------------------------------------------
(* pandas primitives used by the module *)

\* df[tick]: the column as a Series of <<label, cell>>
Column(d, tick) == [i \in 1..Len(d.index) |-> <<d.index[i], d.data[tick][i]>>]

\* label of the first non-NaN entry, None when there is none
first_valid_index(s) ==
    LET V == {i \in 1..Len(s) : ~isna(s[i][2])}
    IN  IF V = {} THEN None
        ELSE <<s[CHOOSE i \in V : \A j \in V : i <= j][1]>>

\* label of the last non-NaN entry, None when there is none
last_valid_index(s) ==
    LET V == {i \in 1..Len(s) : ~isna(s[i][2])}
    IN  IF V = {} THEN None
        ELSE <<s[CHOOSE i \in V : \A j \in V : i >= j][1]>>

\* s[a:b] / s.loc[a:b] on a time index: by label, both ends included,
\* a bound that is None is no bound
SliceLoc(s, a, b) ==
    SelectSeq(s, LAMBDA p : (a = None \/ p[1] >= a[1]) /\ (b = None \/ p[1] <= b[1]))

\* the series between its first and its last non-NaN value
Trimmed(s) == SliceLoc(s, first_valid_index(s), last_valid_index(s))

\* s.isna().sum()
NaCount(s) == Cardinality({i \in 1..Len(s) : isna(s[i][2])})

\* df.columns as a set
Cols(d) == {d.columns[k] : k \in 1..Len(d.columns)}

\* DataFrame(index=df.index, columns=df.columns) holding the given columns
Frame(d, data) == [index |-> d.index, columns |-> d.columns, data |-> data]

-----------------------------------------------------------------------------
(* rolling_mean_df *)

RECURSIVE SumSeq(_)
SumSeq(q) == IF q = << >> THEN <<0, 1>> ELSE Add(q[1], SumSeq(Tail(q)))

\* numpy.convolve(col, ones(duration)/duration, mode="valid") on a column of
\* booleans (True counts 1), for duration <= len(col)
Convolve(col, duration) ==
    [j \in 1..(Len(col) - duration + 1) |->
        SumSeq([k \in 1..duration |->
                  IF col[j + k - 1] THEN Rat(1, duration) ELSE <<0, 1>>])]

rolling_mean_df(d, duration) ==
    LET N == Len(d.index)
        col(c) == LET convolued == Convolve(d.data[c], duration)
                  IN  [i \in 1..N |-> IF i >= duration THEN convolued[i - duration + 1]
                                      ELSE NaN]
    IN  Frame(d, [c \in Cols(d) |-> col(c)])

\* df.isna()
IsnaFrame(d) ==
    LET col(c) == [i \in 1..Len(d.index) |-> isna(d.data[c][i])]
    IN  Frame(d, [c \in Cols(d) |-> col(c)])

-----------------------------------------------------------------------------
(* find_contiguous_nan *)

\* (~mask).cumsum() at position i of the trimmed series
CumValid(s, i) == Cardinality({j \in 1..i : ~isna(s[j][2])})

\* index.to_series()[mask].groupby((~mask).cumsum()[mask]).agg(['first','size'])
\* then set_index("date"): the set of <<date, size>> rows of dd
GroupFirstSize(s) ==
    LET M == {i \in 1..Len(s) : isna(s[i][2])}
        K == {CumValid(s, i) : i \in M}
        G(k) == {i \in M : CumValid(s, i) = k}
    IN  {<<s[CHOOSE i \in G(k) : \A j \in G(k) : i <= j][1], Cardinality(G(k))>> : k \in K}

\* find_contiguous_nan without the restriction to the first..last non-NaN range
find_contiguous_nan_untrimmed(d) ==
    LET col(tick) ==
            LET dftmp == Column(d, tick)
                dd == GroupFirstSize(dftmp)
            IN  [i \in 1..Len(d.index) |->
                    IF \E g \in dd : g[1] = d.index[i]
                    THEN Num((CHOOSE g \in dd : g[1] = d.index[i])[2])
                    ELSE NaN]
    IN  Frame(d, [c \in Cols(d) |-> col(c)])

find_contiguous_nan(d) ==
    LET col(tick) ==
            LET dftmp == Trimmed(Column(d, tick))
                dd == GroupFirstSize(dftmp)
            IN  [i \in 1..Len(d.index) |->
                    IF \E g \in dd : g[1] = d.index[i]
                    THEN Num((CHOOSE g \in dd : g[1] = d.index[i])[2])
                    ELSE NaN]
    IN  Frame(d, [c \in Cols(d) |-> col(c)])

-----------------------------------------------------------------------------
(* pc_nan *)

\* pc_nan counting over the whole column instead of the first..last non-NaN range
pc_nan_untrimmed(d) ==
    [tick \in Cols(d) |->
        LET stmp == Column(d, tick)
        IN  Mul(TrueDiv(NaCount(stmp), Len(stmp)), 100)]

pc_nan(d) ==
    [tick \in Cols(d) |->
        LET stmp == Trimmed(Column(d, tick))
        IN  Mul(TrueDiv(NaCount(stmp), Len(stmp)), 100)]

-----------------------------------------------------------------------------
(* nan_by_window *)

nan_by_window(d, W) ==
    LET N == Len(d.index)
        rolled == rolling_mean_df(IsnaFrame(d), W)
        col(tick) ==
            LET output == [i \in 1..N |-> Mul(rolled.data[tick][i], W)]
                ts == Trimmed(Column(d, tick))
            IN  IF W - 1 < Len(ts)
                THEN LET i0 == ts[W][1]
                         i1 == ts[Len(ts)][1]
                     IN  [i \in 1..N |->
                            IF d.index[1] <= d.index[i] /\ d.index[i] <= i0 THEN NaN
                            ELSE IF i1 < d.index[N] /\ i1 <= d.index[i] THEN NaN
                            ELSE output[i]]
                ELSE [i \in 1..N |-> NaN]
    IN  Frame(d, [c \in Cols(d) |-> col(c)])

-----------------------------------------------------------------------------
(* nb_valid_windows *)

\* nb_valid_windows whose mask tests npf >= 0 instead of npf == 0
nb_valid_windows_ge(d, W, mode) ==
    LET npf == nan_by_window(d, W)
        N == Len(d.index)
    IN  IF mode = <<"pc">>
        THEN [raised |-> None,
              value |-> [c \in Cols(d) |->
                  Mul(TrueDiv(Cardinality({i \in 1..N : FloatEq(npf.data[c][i], 0)}),
                              Cardinality({i \in 1..N : FloatGe(npf.data[c][i], 0)})),
                      100)]]
        ELSE IF mode = None
        THEN [raised |-> None,
              value |-> LET col(c) == [i \in 1..N |-> FloatGe(npf.data[c][i], 0)]
                        IN  Frame(d, [c \in Cols(d) |-> col(c)])]
        ELSE [raised |-> <<"ValueError">>, value |-> None]

\* nb_valid_windows that returns the mask for every selector other than "pc"
nb_valid_windows_default(d, W, mode) ==
    LET npf == nan_by_window(d, W)
        N == Len(d.index)
    IN  IF mode = <<"pc">>
        THEN [raised |-> None,
              value |-> [c \in Cols(d) |->
                  Mul(TrueDiv(Cardinality({i \in 1..N : FloatEq(npf.data[c][i], 0)}),
                              Cardinality({i \in 1..N : FloatGe(npf.data[c][i], 0)})),
                      100)]]
        ELSE [raised |-> None,
              value |-> LET col(c) == [i \in 1..N |-> FloatEq(npf.data[c][i], 0)]
                        IN  Frame(d, [c \in Cols(d) |-> col(c)])]

nb_valid_windows(d, W, mode) ==
    LET npf == nan_by_window(d, W)
        N == Len(d.index)
    IN  IF mode = <<"pc">>
        THEN [raised |-> None,
              value |-> [c \in Cols(d) |->
                  Mul(TrueDiv(Cardinality({i \in 1..N : FloatEq(npf.data[c][i], 0)}),
                              Cardinality({i \in 1..N : FloatGe(npf.data[c][i], 0)})),
                      100)]]
        ELSE IF mode = None
        THEN [raised |-> None,
              value |-> LET col(c) == [i \in 1..N |-> FloatEq(npf.data[c][i], 0)]
                        IN  Frame(d, [c \in Cols(d) |-> col(c)])]
        ELSE [raised |-> <<"ValueError">>, value |-> None]

-----------------------------------------------------------------------------
(* inputs *)

\* the time index of the docstring example of find_contiguous_nan (days of
\* December 1980)
DocIndex == <<12, 15, 16, 17, 18, 19, 22, 23, 24, 26>>

\* the table of the docstring example of find_contiguous_nan
DocExample ==
    [index |-> DocIndex, columns |-> <<"c1", "c2">>,
     data |-> [c \in {"c1", "c2"} |->
        IF c = "c1"
        THEN << <<81, 100>>, <<177, 100>>, <<-50, 100>>, NaN, NaN,
                <<-117, 100>>, NaN, <<-93, 100>>, <<158, 100>>, <<-13, 100>> >>
        ELSE << NaN, NaN, NaN, <<1, 100>>, <<-106, 100>>,
                <<62, 100>>, <<55, 100>>, <<-54, 100>>, NaN, <<111, 100>> >>]]

\* 10 rows, A missing at rows 4 and 9, B missing at rows 0-2 and 5 (0-indexed)
ScenarioTable ==
    [index |-> DocIndex, columns |-> <<"A", "B">>,
     data |-> [c \in {"A", "B"} |->
        [i \in 1..10 |->
            IF c = "A" THEN (IF i \in {5, 10} THEN NaN ELSE Num(1))
            ELSE (IF i \in {1, 2, 3, 6} THEN NaN ELSE Num(1))]]]

SmallTables ==
    UNION {
        {[index |-> SubSeq(DocIndex, 1, N), columns |-> <<"c1", "c2">>, data |-> dt] :
            dt \in [{"c1", "c2"} -> [1..N -> {NaN, Num(1)}]]}
        : N \in 1..MaxRows}

Tables == SmallTables \cup {DocExample, ScenarioTable}

Modes == {None, <<"pc">>, <<"bool">>}

-----------------------------------------------------------------------------
(* state machine: one call of one function on the chosen input *)

Init ==
    /\ df \in Tables
    /\ longueur_fenetre \in 1..Len(df.index)
    /\ modif_output \in Modes
    /\ pc = "idle"
    /\ ret = None
    /\ raised = None

call_rolling_mean_df ==
    /\ pc = "idle"
    /\ pc' = "rolling_mean_df"
    /\ ret' = rolling_mean_df(IsnaFrame(df), longueur_fenetre)
    /\ UNCHANGED <<df, longueur_fenetre, modif_output, raised>>

call_find_contiguous_nan ==
    /\ pc = "idle"
    /\ pc' = "find_contiguous_nan"
    /\ ret' = find_contiguous_nan(df)
    /\ UNCHANGED <<df, longueur_fenetre, modif_output, raised>>

call_pc_nan ==
    /\ pc = "idle"
    /\ pc' = "pc_nan"
    /\ ret' = pc_nan(df)
    /\ UNCHANGED <<df, longueur_fenetre, modif_output, raised>>

call_nan_by_window ==
    /\ pc = "idle"
    /\ pc' = "nan_by_window"
    /\ ret' = nan_by_window(df, longueur_fenetre)
    /\ UNCHANGED <<df, longueur_fenetre, modif_output, raised>>

call_nb_valid_windows ==
    /\ pc = "idle"
    /\ pc' = "nb_valid_windows"
    /\ LET r == nb_valid_windows(df, longueur_fenetre, modif_output)
       IN  ret' = r.value /\ raised' = r.raised
    /\ UNCHANGED <<df, longueur_fenetre, modif_output>>

Next ==
    \/ call_rolling_mean_df
    \/ call_find_contiguous_nan
    \/ call_pc_nan
    \/ call_nan_by_window
    \/ call_nb_valid_windows

Spec == Init /\ [][Next]_vars

-----------------------------------------------------------------------------
(* vocabulary of the properties: rows are positions 1..N of the table *)

NRows == Len(df.index)

ValidRows(c) == {i \in 1..NRows : df.data[c][i] # NaN}

HasValid(c) == ValidRows(c) # {}

\* first and last non-missing row of a column that has one
FirstRow(c) == CHOOSE i \in ValidRows(c) : \A j \in ValidRows(c) : i <= j

LastRow(c) == CHOOSE i \in ValidRows(c) : \A j \in ValidRows(c) : i >= j

\* number of rows of the ObservedSpan, 0 when the column has no value
SpanLen(c) == IF HasValid(c) THEN LastRow(c) - FirstRow(c) + 1 ELSE 0

\* number of missing values among rows a..b of column c
MissingIn(c, a, b) == Cardinality({i \in a..b : df.data[c][i] = NaN})

\* number of missing values inside the ObservedSpan
MissingInSpan(c) == IF HasValid(c) THEN MissingIn(c, FirstRow(c), LastRow(c)) ELSE 0

\* row t starts a maximal run of missing values
RunStart(c, t) == df.data[c][t] = NaN /\ (t = 1 \/ df.data[c][t - 1] # NaN)

\* length of the run of missing values that starts at row t
RunLen(c, t) ==
    LET E == {e \in t..NRows : \A i \in t..e : df.data[c][i] = NaN}
    IN  Cardinality(E)

InSpan(c, t) == HasValid(c) /\ FirstRow(c) <= t /\ t <= LastRow(c)

\* rows at which a full window of W rows ending there lies in the span
Evaluable(c, t) ==
    HasValid(c) /\ FirstRow(c) + longueur_fenetre - 1 <= t /\ t <= LastRow(c)

-----------------------------------------------------------------------------
(* properties *)

\* C1: nan_by_window(df, W) holds, for every column with a non-missing value,
\* the number of missing values among rows t-W+1..t at every row t with
\* f+W-1 <= t <= l, and the missing marker at every other row.
C1_WindowCount ==
    pc = "nan_by_window" =>
        \A c \in Cols(df) : HasValid(c) =>
            \A t \in 1..NRows :
                ret.data[c][t] =
                    IF Evaluable(c, t)
                    THEN Num(MissingIn(c, t - longueur_fenetre + 1, t))
                    ELSE NaN

\* C2: find_contiguous_nan(df) holds n at a cell exactly when the row lies in
\* the column's ObservedSpan and starts a maximal run of n missing values;
\* every other cell holds the missing marker.
C2_RunEncoding ==
    pc = "find_contiguous_nan" =>
        /\ ret.index = df.index
        /\ ret.columns = df.columns
        /\ \A c \in Cols(df) : \A t \in 1..NRows :
                ret.data[c][t] =
                    IF InSpan(c, t) /\ RunStart(c, t) THEN Num(RunLen(c, t)) ELSE NaN

\* C3: pc_nan(df) is, for every column with a non-empty ObservedSpan,
\* 100 * (missing rows of the span) / (rows of the span), and lies in [0, 100].
C3_PcNan ==
    pc = "pc_nan" =>
        \A c \in Cols(df) : HasValid(c) =>
            /\ ret[c] # NaN
            /\ ret[c][2] > 0
            /\ ret[c][1] * SpanLen(c) = 100 * MissingInSpan(c) * ret[c][2]
            /\ 0 <= ret[c][1]
            /\ ret[c][1] <= 100 * ret[c][2]

\* C3 witness: pc_nan has run on a column with missing rows both outside and
\* inside its ObservedSpan.
C3_Witness ==
    /\ pc = "pc_nan"
    /\ \E c \in Cols(df) :
        /\ HasValid(c)
        /\ SpanLen(c) < NRows
        /\ MissingInSpan(c) > 0
        /\ ret[c] = Rat(100 * MissingInSpan(c), SpanLen(c))

\* C4: a column without a missing value in its ObservedSpan, with W at most
\* the span length, has nb_valid_windows(df, W, "pc") = 100 (and pc_nan = 0).
C4_FullValidity ==
    (pc = "nb_valid_windows" /\ modif_output = <<"pc">>) =>
        \A c \in Cols(df) :
            (HasValid(c) /\ MissingInSpan(c) = 0 /\ longueur_fenetre <= SpanLen(c)) =>
                (ret[c] = Num(100) /\ pc_nan(df)[c] = Num(0))

\* C5: for a column with no non-missing value every derived statistic is the
\* missing marker: the columns of find_contiguous_nan and nan_by_window are
\* all missing and pc_nan is not a number.
C5_AllMissingColumn ==
    \A c \in Cols(df) : ~HasValid(c) =>
        /\ pc = "find_contiguous_nan" => \A t \in 1..NRows : ret.data[c][t] = NaN
        /\ pc = "nan_by_window" => \A t \in 1..NRows : ret.data[c][t] = NaN
        /\ pc = "pc_nan" => ret[c] = NaN

RECURSIVE SumRecorded(_, _)
SumRecorded(col, t) ==
    IF t = 0 THEN 0
    ELSE (IF col[t] = NaN THEN 0 ELSE col[t][1]) + SumRecorded(col, t - 1)

\* C6: the run lengths find_contiguous_nan records in a column sum to the
\* number of missing entries between the column's first and last non-missing
\* rows (0 when the ObservedSpan is empty).
C6_RunLengthSum ==
    pc = "find_contiguous_nan" =>
        \A c \in Cols(df) : SumRecorded(ret.data[c], NRows) = MissingInSpan(c)

\* C7: nb_valid_windows(df, W) in the default mode is a boolean table, True
\* at (t, c) exactly when nan_by_window(df, W) is 0 there, and False where the
\* counter is positive or missing, in particular outside the evaluable rows.
C7_ValidMask ==
    (pc = "nb_valid_windows" /\ modif_output = None) =>
        /\ raised = None
        /\ \A c \in Cols(df) : \A t \in 1..NRows :
            /\ ret.data[c][t] \in BOOLEAN
            /\ ret.data[c][t] <=> (nan_by_window(df, longueur_fenetre).data[c][t] = Num(0))
            /\ ~Evaluable(c, t) => ret.data[c][t] = FALSE
            /\ ret.data[c][t] = TRUE =>
                MissingIn(c, t - longueur_fenetre + 1, t) = 0

\* C7 witness: the mask has been computed on a column where it is True at one
\* row, False on a positive count at another and False on a missing counter.
C7_Witness ==
    /\ pc = "nb_valid_windows"
    /\ modif_output = None
    /\ \E c \in Cols(df) : \E t1, t2, t3 \in 1..NRows :
        /\ ret.data[c][t1] = TRUE
        /\ ret.data[c][t2] = FALSE
        /\ nan_by_window(df, longueur_fenetre).data[c][t2] # NaN
        /\ ret.data[c][t3] = FALSE
        /\ nan_by_window(df, longueur_fenetre).data[c][t3] = NaN

\* C8: nb_valid_windows with a mode selector other than None and "pc" raises
\* ValueError and returns nothing.
C8_InvalidMode ==
    (pc = "nb_valid_windows" /\ modif_output \notin {None, <<"pc">>}) =>
        (raised = <<"ValueError">> /\ ret = None)

\* C8 witness: a call with the unsupported selector "bool" has raised.
C8_Witness ==
    /\ pc = "nb_valid_windows"
    /\ modif_output = <<"bool">>
    /\ raised = <<"ValueError">>

\* C9: in nan_by_window(df, W) a column whose ObservedSpan has fewer than W
\* rows (an empty span included) is entirely missing markers.
C9_ShortSpan ==
    pc = "nan_by_window" =>
        \A c \in Cols(df) : SpanLen(c) < longueur_fenetre =>
            \A t \in 1..NRows : ret.data[c][t] = NaN

\* the output of find_contiguous_nan on the scenario table, with the given
\* value at (row 9, A)
ScenarioOutput(last) ==
    [c \in {"A", "B"} |->
        [i \in 1..10 |->
            IF (c = "A" /\ i = 5) \/ (c = "B" /\ i = 6) THEN Num(1)
            ELSE IF c = "A" /\ i = 10 THEN last
            ELSE NaN]]

\* C10 as stated: on the scenario table the output holds 1 at (row 4, A),
\* (row 9, A) and (row 5, B) and the missing marker elsewhere.
C10_Original ==
    (pc = "find_contiguous_nan" /\ df = ScenarioTable) =>
        ret.data = ScenarioOutput(Num(1))

\* C10 amended: on the scenario table the output holds 1 at (row 4, A) and
\* (row 5, B) and the missing marker in every other cell, (row 9, A)
\* included: the missing value at the last row lies after A's last
\* non-missing row and is not recorded.
C10_Amended ==
    (pc = "find_contiguous_nan" /\ df = ScenarioTable) =>
        ret.data = ScenarioOutput(NaN)

\* C10 witness: find_contiguous_nan has run on the scenario table.
C10_Witness ==
    /\ pc = "find_contiguous_nan"
    /\ df = ScenarioTable
    /\ ret.data["A"][5] = Num(1)
    /\ ret.data["A"][10] = NaN

====
